---- MODULE Spec2Model ----
(***************************************************************************)
(* A model of TemplateSanitizer (sanitize-template.py): the run over the   *)
(* discovered HTML files, the per-file pipeline (backup, CSS pass, parse,  *)
(* metadata pass, asset pass, attribute pass, write back) and the pure     *)
(* helpers (page classification, asset eligibility, relative paths).       *)
(*                                                                         *)
(* Text is modelled by TLA+ strings; a parsed document (the BeautifulSoup  *)
(* tree) by a record of the parts the passes read and write.               *)
(***************************************************************************)
EXTENDS Integers, Sequences, FiniteSets, TLC

VARIABLES
    config,             \* the loaded configuration (the toggles that vary)
    files,              \* disk: path -> bytes of each HTML file
    backups,            \* disk: path -> bytes of path + backup_suffix, or Missing
    html_files,         \* run(): the list returned by find_html_files
    idx,                \* run(): position of the for loop in html_files
    pc,                 \* where run() / process_file() stands
    soup,               \* process_file(): the parsed document, or Absent
    total_changes,      \* process_file(): the change counter
    report,             \* self.report: the log entries
    processed_files,    \* self.processed_files
    downloaded_assets,  \* self.downloaded_assets
    fetch_log,          \* history: the urlretrieve calls issued in this run
    handed,             \* history: the paths handed to process_file in this run
    written,            \* history: per path, the number of times it was opened for writing
    orig,               \* history: the bytes every file had when the run started
    results,            \* history: how each process_file call of this run ended
    prior,              \* history: the results of the run before this one
    summary,            \* generate_report(): <<the summary>>, <<>> before it
    run_no,             \* number of the current run (a fresh TemplateSanitizer per run)
    page_path,          \* page classification: the path classified
    page_result,        \* page classification: <<[title, description]>>, <<>> before
    attr_pairs,         \* attribute pass: config['attribute_replacements']
    attr_nodes,         \* attribute pass: the elements before the pass
    attr_result         \* attribute pass: <<[nodes, changes, report]>>, <<>> before

runVars == <<config, files, backups, html_files, idx, pc, soup, total_changes,
             report, processed_files, downloaded_assets, fetch_log, handed,
             written, orig, results, prior, summary, run_no>>
pageVars == <<page_path, page_result>>
attrVars == <<attr_pairs, attr_nodes, attr_result>>
vars == <<runVars, pageVars, attrVars>>

Absent == "<absent>"

----------------------------------------------------------------------------
(* Bounds of the model.                                                    *)

MaxFiles == 2
MaxRuns == 2
MaxDepth == 2
MaxNodes == 2
MaxPairs == 2

----------------------------------------------------------------------------
(* Strings.                                                                *)

\* Python's `t in s`.
Contains(s, t) ==
    \E i \in 1..(Len(s) - Len(t) + 1) : SubSeq(s, i, i + Len(t) - 1) = t

\* The least index at which t occurs in s from position `from` on, or 0.
Find(s, t, from) ==
    LET hits == {i \in from..(Len(s) - Len(t) + 1) : SubSeq(s, i, i + Len(t) - 1) = t}
    IN IF hits = {} THEN 0 ELSE CHOOSE i \in hits : \A j \in hits : i <= j

UpperLetters == "ABCDEFGHIJKLMNOPQRSTUVWXYZ"
LowerLetters == "abcdefghijklmnopqrstuvwxyz"

Letters == {SubSeq(UpperLetters, i, i) : i \in 1..26}
             \cup {SubSeq(LowerLetters, i, i) : i \in 1..26}

LowerOf == [c \in {SubSeq(UpperLetters, i, i) : i \in 1..26} |->
               LET i == Find(UpperLetters, c, 1) IN SubSeq(LowerLetters, i, i)]

UpperOf == [c \in {SubSeq(LowerLetters, i, i) : i \in 1..26} |->
               LET i == Find(LowerLetters, c, 1) IN SubSeq(UpperLetters, i, i)]

IsLetter(c) == c \in Letters

LowerChar(c) == IF c \in DOMAIN LowerOf THEN LowerOf[c] ELSE c

UpperChar(c) == IF c \in DOMAIN UpperOf THEN UpperOf[c] ELSE c

\* str.lower()
RECURSIVE ToLower(_)
ToLower(s) ==
    IF s = "" THEN ""
    ELSE LowerChar(SubSeq(s, 1, 1)) \o ToLower(SubSeq(s, 2, Len(s)))

\* str.replace(old, new) for a one-character old.
RECURSIVE ReplaceChar(_, _, _)
ReplaceChar(s, old, new) ==
    IF s = "" THEN ""
    ELSE (IF SubSeq(s, 1, 1) = old THEN new ELSE SubSeq(s, 1, 1))
         \o ReplaceChar(SubSeq(s, 2, Len(s)), old, new)

\* str.title(): a letter that follows a non-letter is upper-cased, every
\* other letter lower-cased.
RECURSIVE TitleFrom(_, _)
TitleFrom(s, prevIsLetter) ==
    IF s = "" THEN ""
    ELSE LET c == SubSeq(s, 1, 1)
         IN (IF prevIsLetter THEN LowerChar(c) ELSE UpperChar(c))
            \o TitleFrom(SubSeq(s, 2, Len(s)), IsLetter(c))

TitleCase(s) == TitleFrom(s, FALSE)

\* str.split("/") as a sequence of segments.
RECURSIVE SplitPath(_)
SplitPath(s) ==
    LET i == Find(s, "/", 1)
    IN IF i = 0 THEN <<s>>
       ELSE <<SubSeq(s, 1, i - 1)>> \o SplitPath(SubSeq(s, i + 1, Len(s)))

RECURSIVE JoinPath(_)
JoinPath(segs) ==
    IF Len(segs) = 0 THEN ""
    ELSE IF Len(segs) = 1 THEN segs[1]
    ELSE segs[1] \o "/" \o JoinPath(Tail(segs))

\* Path(p).parent.name: the last directory of p, "" for a bare file name.
ParentName(p) ==
    LET segs == SplitPath(p)
    IN IF Len(segs) < 2 THEN "" ELSE segs[Len(segs) - 1]

----------------------------------------------------------------------------
(* The configuration document (sanitize-config.yml), as far as the code    *)
(* reads it.  backup and download_external vary with `config`; the rest is *)
(* one representative rule set.                                            *)

Cfg_personal == [name |-> "Matt", title |-> "Designer", description |-> "Portfolio of Matt"]
Cfg_contact == [title |-> "Contact Matt", description |-> "Get in touch"]
Cfg_case_title_template == "{project_name} - Case Study"
Cfg_case_description_template == "How {project_name} was made"
Cfg_vendor_domains == <<"framerusercontent.com", "framer.com">>
Cfg_assets_local_path == "assets"
Cfg_backup_suffix == ".bak"
Cfg_attribute_replacements ==
    << [from |-> "data-framer-name", to |-> "data-name"],
       [from |-> "data-framer-component-type", to |-> "data-component-type"] >>
Cfg_remove_elements ==
    << [selector |-> "script", contains |-> "framer"],
       [selector |-> "#__framer-badge-container", contains |-> Absent] >>

\* template.format(project_name=...): the placeholder replaced.
Format(template, project_name) ==
    LET ph == "{project_name}"
        i  == Find(template, ph, 1)
    IN IF i = 0 THEN template
       ELSE SubSeq(template, 1, i - 1) \o project_name
            \o SubSeq(template, i + Len(ph), Len(template))

----------------------------------------------------------------------------
(* Page classification.                                                    *)

IsContactPath(file_path) == Contains(ToLower(file_path), "contact")
IsCaseStudyPath(file_path) == Contains(file_path, "work/")

ProjectName(file_path) == TitleCase(ReplaceChar(ParentName(file_path), "-", " "))

\* A variant that tests the case-study marker before the contact marker.
CaseStudyFirst_get_page_title(file_path) ==
    IF IsCaseStudyPath(file_path)
    THEN Format(Cfg_case_title_template, ProjectName(file_path))
    ELSE IF IsContactPath(file_path)
    THEN Cfg_contact.title
    ELSE Cfg_personal.name \o " - " \o Cfg_personal.title

_get_page_title(file_path) ==
    IF IsContactPath(file_path)
    THEN Cfg_contact.title
    ELSE IF IsCaseStudyPath(file_path)
    THEN Format(Cfg_case_title_template, ProjectName(file_path))
    ELSE Cfg_personal.name \o " - " \o Cfg_personal.title

_get_page_description(file_path) ==
    IF IsContactPath(file_path)
    THEN Cfg_contact.description
    ELSE IF IsCaseStudyPath(file_path)
    THEN Format(Cfg_case_description_template, ProjectName(file_path))
    ELSE Cfg_personal.description

----------------------------------------------------------------------------
(* Logging.                                                                *)

Log(rep, message, level) == Append(rep, "[" \o level \o "] " \o message)

----------------------------------------------------------------------------
(* Documents.  The bytes of a file are a document plus the formatting it   *)
(* is written in: "source" as authored, "bs4" as str(soup) prints it.      *)
(* A document holds: css, the number of vendor CSS fragments in its text;  *)
(* nodes, its ordinary elements [sel, text, attrs]; meta, the title and    *)
(* meta tags present (kind -> text); icons, its <link rel="icon"> tags     *)
(* [href, media]; og_image and twitter_image, the content of those tags.   *)

MetaKinds == {"title", "description", "og:title", "og:description",
              "twitter:title", "twitter:description"}

Parse(bytes) == bytes.doc

Serialize(doc) == [doc |-> doc, fmt |-> "bs4"]

Source(doc) == [doc |-> doc, fmt |-> "source"]

\* No such file.
Missing == [doc |-> <<>>, fmt |-> "missing"]

----------------------------------------------------------------------------
(* AssetResolver.                                                          *)

\* The text after the scheme, if the URL has one.
AfterScheme(url, c) ==
    IF c > 1 /\ \A k \in 1..(c - 1) : IsLetter(SubSeq(url, k, k))
    THEN SubSeq(url, c + 1, Len(url))
    ELSE url

\* The text up to the first of "/", "?", "#".
UpToDelimiter(body) ==
    LET ends == {i \in 1..Len(body) : SubSeq(body, i, i) \in {"/", "?", "#"}}
    IN IF ends = {} THEN body
       ELSE SubSeq(body, 1, (CHOOSE i \in ends : \A j \in ends : i <= j) - 1)

NetlocOf(rest) ==
    IF Len(rest) < 2 \/ SubSeq(rest, 1, 2) # "//" THEN ""
    ELSE UpToDelimiter(SubSeq(rest, 3, Len(rest)))

\* urlparse(url).netloc
Netloc(url) == NetlocOf(AfterScheme(url, Find(url, ":", 1)))

VendorHosted(url) ==
    \E d \in 1..Len(Cfg_vendor_domains) : Contains(Netloc(url), Cfg_vendor_domains[d])

\* A variant that does not look at the host.
AnyUrl_should_download_asset(cfg, url) == cfg.download_external

\* download_external off: False; else True iff a vendor domain is in the netloc.
should_download_asset(cfg, url) ==
    IF ~cfg.download_external THEN FALSE ELSE VendorHosted(url)

\* The length of the longest common prefix of two segment sequences.
CommonPrefix(dir, to) ==
    LET same == {k \in 0..Len(dir) : k <= Len(to) /\ \A j \in 1..k : dir[j] = to[j]}
    IN CHOOSE n \in same : \A m \in same : m <= n

RelativeFrom(dir, to, k) ==
    [j \in 1..(Len(dir) + Len(to) - 2 * k) |->
        IF j <= Len(dir) - k THEN ".." ELSE to[j - Len(dir) + 2 * k]]

DirOf(segs) == SubSeq(segs, 1, Len(segs) - 1)

NonEmptyPath(p) == IF p = "" THEN "." ELSE p

\* os.path.relpath(to_file, from_file.parent), both relative to the root.
get_relative_path(from_file, to_file) ==
    NonEmptyPath(JoinPath(RelativeFrom(DirOf(SplitPath(from_file)), SplitPath(to_file),
                                       CommonPrefix(DirOf(SplitPath(from_file)),
                                                    SplitPath(to_file)))))

\* The world download_asset acts on: the downloaded set, the log, the
\* outcomes the network gives to the fetches still to come (net), and the
\* history of fetches, each noted with the file and tag that asked for it.
FetchEntry(w, url, local_path, ok) ==
    [file |-> w.file, tag |-> w.tag, url |-> url, local_path |-> local_path,
     already |-> local_path \in w.downloaded, ok |-> ok]

download_asset(w, url, local_path) ==
    IF Head(w.net)
    THEN [ok |-> TRUE,
          w  |-> [w EXCEPT !.downloaded = @ \cup {local_path},
                           !.fetch_log = Append(@, FetchEntry(w, url, local_path, TRUE)),
                           !.report = Log(@, "Downloaded: " \o url \o " -> " \o local_path, "INFO"),
                           !.net = Tail(@)]]
    ELSE [ok |-> FALSE,
          w  |-> [w EXCEPT !.fetch_log = Append(@, FetchEntry(w, url, local_path, FALSE)),
                           !.report = Log(@, "Failed to download " \o url, "ERROR"),
                           !.net = Tail(@)]]

----------------------------------------------------------------------------
(* CssPatternStripper.                                                     *)

\* re.sub removes every fragment; the count says only whether one was there.
sanitize_css(content, rep) ==
    IF content.doc.css > 0
    THEN [content |-> [content EXCEPT !.doc.css = 0],
          changes |-> 1,
          report  |-> Log(rep, "Removed Framer badge container CSS", "INFO")]
    ELSE [content |-> content, changes |-> 0, report |-> rep]

----------------------------------------------------------------------------
(* MetadataRewriter.                                                       *)

\* ' '.join(str(v) for v in element.attrs.values())
RECURSIVE JoinAttrs(_)
JoinAttrs(attrs) ==
    IF DOMAIN attrs = {} THEN ""
    ELSE LET a    == CHOOSE x \in DOMAIN attrs : TRUE
             rest == [x \in DOMAIN attrs \ {a} |-> attrs[x]]
         IN IF DOMAIN rest = {} THEN attrs[a]
            ELSE attrs[a] \o " " \o JoinAttrs(rest)

\* re.search(contains, text + ' ' + attrs, re.IGNORECASE), contains a literal.
RuleRemoves(rule, node) ==
    /\ node.sel = rule.selector
    /\ \/ rule.contains = Absent
       \/ Contains(ToLower(node.text \o " " \o JoinAttrs(node.attrs)),
                   ToLower(rule.contains))

RemovalMessage(rule) ==
    IF rule.contains = Absent
    THEN "Removed " \o rule.selector
    ELSE "Removed " \o rule.selector \o " containing '" \o rule.contains \o "'"

\* One removal rule over the elements, in document order.
RECURSIVE RemoveByRule(_, _, _)
RemoveByRule(st, rule, i) ==
    IF i > Len(st.todo) THEN st
    ELSE IF RuleRemoves(rule, st.todo[i])
    THEN RemoveByRule([st EXCEPT !.changes = @ + 1,
                                 !.report = Log(@, RemovalMessage(rule), "INFO")],
                      rule, i + 1)
    ELSE RemoveByRule([st EXCEPT !.kept = Append(@, st.todo[i])], rule, i + 1)

Kept(one) == [nodes |-> one.kept, changes |-> one.changes, report |-> one.report]

RECURSIVE RemoveElements(_, _, _)
RemoveElements(st, rules, r) ==
    IF r > Len(rules) THEN st
    ELSE RemoveElements(Kept(RemoveByRule([todo |-> st.nodes, kept |-> <<>>,
                                           changes |-> st.changes, report |-> st.report],
                                          rules[r], 1)),
                        rules, r + 1)

\* A variant that overwrites, and counts, only a tag whose value differs.
OnlyIfDifferent_OverwriteMeta(st, kind, value, message) ==
    IF kind \in DOMAIN st.soup.meta /\ st.soup.meta[kind] # value
    THEN [soup    |-> [st.soup EXCEPT !.meta[kind] = value],
          changes |-> st.changes + 1,
          report  |-> IF message = Absent THEN st.report
                      ELSE Log(st.report, message, "INFO")]
    ELSE st

\* One "find the tag, overwrite it, count one change" step.
OverwriteMeta(st, kind, value, message) ==
    IF kind \in DOMAIN st.soup.meta
    THEN [soup    |-> [st.soup EXCEPT !.meta[kind] = value],
          changes |-> st.changes + 1,
          report  |-> IF message = Absent THEN st.report
                      ELSE Log(st.report, message, "INFO")]
    ELSE st

AfterRemoval(doc, rm) ==
    [soup |-> [doc EXCEPT !.nodes = rm.nodes], changes |-> rm.changes, report |-> rm.report]

OldTitle(doc) == IF "title" \in DOMAIN doc.meta THEN doc.meta["title"] ELSE ""

\* The six overwrites, in the order of the code.
OverwriteAll(s0, title, desc, old) ==
    OverwriteMeta(
      OverwriteMeta(
        OverwriteMeta(
          OverwriteMeta(
            OverwriteMeta(
              OverwriteMeta(s0, "title", title, "Updated title: " \o old \o " -> " \o title),
              "description", desc, "Updated description"),
            "og:title", title, Absent),
          "og:description", desc, Absent),
        "twitter:title", title, Absent),
      "twitter:description", desc, Absent)

sanitize_metadata(doc, file_path, rep) ==
    OverwriteAll(
        AfterRemoval(doc, RemoveElements([nodes |-> doc.nodes, changes |-> 0, report |-> rep],
                                         Cfg_remove_elements, 1)),
        _get_page_title(file_path), _get_page_description(file_path), OldTitle(doc))

----------------------------------------------------------------------------
(* AttributeRenamer.                                                       *)

\* A variant that leaves an existing to_attr value alone.
KeepExisting_RenameAttr(attrs, from_attr, to_attr) ==
    LET set == [a \in DOMAIN attrs \cup {to_attr} |->
                   IF a = to_attr /\ to_attr \notin DOMAIN attrs
                   THEN attrs[from_attr] ELSE attrs[a]]
    IN [a \in DOMAIN set \ {from_attr} |-> set[a]]

\* element[to_attr] = element[from_attr]; del element[from_attr]
RenameAttr(attrs, from_attr, to_attr) ==
    LET set == [a \in DOMAIN attrs \cup {to_attr} |->
                   IF a = to_attr THEN attrs[from_attr] ELSE attrs[a]]
    IN [a \in DOMAIN set \ {from_attr} |-> set[a]]

\* One pair over the elements that carry from_attr, in document order.
RECURSIVE RenameInNodes(_, _, _)
RenameInNodes(st, pair, i) ==
    IF i > Len(st.nodes) THEN st
    ELSE IF pair.from \in DOMAIN st.nodes[i].attrs
    THEN RenameInNodes(
             [nodes   |-> [st.nodes EXCEPT ![i].attrs = RenameAttr(@, pair.from, pair.to)],
              changes |-> st.changes + 1,
              report  |-> Log(st.report,
                              "Replaced attribute: " \o pair.from \o " -> " \o pair.to,
                              "INFO")],
             pair, i + 1)
    ELSE RenameInNodes(st, pair, i + 1)

RECURSIVE RenamePairs(_, _, _)
RenamePairs(st, pairs, r) ==
    IF r > Len(pairs) THEN st
    ELSE RenamePairs(RenameInNodes(st, pairs[r], 1), pairs, r + 1)

sanitize_attributes(nodes, pairs, rep) ==
    RenamePairs([nodes |-> nodes, changes |-> 0, report |-> rep], pairs, 1)

----------------------------------------------------------------------------
(* Asset pass.                                                             *)

\* str(link): the tag as printed, its attributes included.
StrLink(link) ==
    "<link href=\"" \o link.href \o "\""
    \o (IF link.media = Absent THEN "" ELSE " media=\"" \o link.media \o "\"")
    \o " rel=\"icon\"/>"

FaviconName(link) ==
    IF Contains(link.href, "light")
       \/ Contains(StrLink(link), "prefers-color-scheme: light")
    THEN "favicon-light.png"
    ELSE IF Contains(link.href, "dark")
            \/ Contains(StrLink(link), "prefers-color-scheme: dark")
    THEN "favicon-dark.png"
    ELSE "favicon.png"

AssetPath(filename) == Cfg_assets_local_path \o "/" \o filename

\* A variant that rewrites the reference whatever download_asset returned.
RewriteOnFailure_Localized(st, r, path, value) ==
    [soup    |-> IF Len(path) = 2
                 THEN [st.soup EXCEPT ![path[1]][path[2]].href = value]
                 ELSE [st.soup EXCEPT ![path[1]] = value],
     changes |-> st.changes + 1,
     w       |-> r.w]

\* if self.download_asset(...): rewrite the reference, count one change.
Localized(st, r, path, value) ==
    IF r.ok
    THEN [soup    |-> IF Len(path) = 2
                      THEN [st.soup EXCEPT ![path[1]][path[2]].href = value]
                      ELSE [st.soup EXCEPT ![path[1]] = value],
          changes |-> st.changes + 1,
          w       |-> r.w]
    ELSE [st EXCEPT !.w = r.w]

Asking(w, tag) == [w EXCEPT !.tag = tag]

IconStep(st, file_path, i, local_path) ==
    Localized(st,
              download_asset(Asking(st.w, <<"icon", i>>), st.soup.icons[i].href, local_path),
              <<"icons", i>>,
              get_relative_path(file_path, local_path))

\* for link in soup.find_all('link', rel='icon'): ...
RECURSIVE LocalizeIcons(_, _, _, _)
LocalizeIcons(st, file_path, cfg, i) ==
    IF i > Len(st.soup.icons) THEN st
    ELSE LocalizeIcons(
             IF should_download_asset(cfg, st.soup.icons[i].href)
             THEN IconStep(st, file_path, i, AssetPath(FaviconName(st.soup.icons[i])))
             ELSE st,
             file_path, cfg, i + 1)

\* The og:image step and the twitter:image step: both go to og-preview.png.
LocalizeImage(st, file_path, cfg, field) ==
    IF st.soup[field] # Absent /\ should_download_asset(cfg, st.soup[field])
    THEN Localized(st,
                   download_asset(Asking(st.w, <<field, 0>>), st.soup[field],
                                  AssetPath("og-preview.png")),
                   <<field>>,
                   get_relative_path(file_path, AssetPath("og-preview.png")))
    ELSE st

sanitize_assets(doc, file_path, cfg, w) ==
    LocalizeImage(
        LocalizeImage(
            LocalizeIcons([soup |-> doc, changes |-> 0, w |-> w], file_path, cfg, 1),
            file_path, cfg, "og_image"),
        file_path, cfg, "twitter_image")

\* The tags of a document the asset pass will ask the network for.
EligibleTags(doc, cfg) ==
    {<<"icon", i>> : i \in {j \in 1..Len(doc.icons) :
                               should_download_asset(cfg, doc.icons[j].href)}}
    \cup {<<f, 0>> : f \in {g \in {"og_image", "twitter_image"} :
                               doc[g] # Absent /\ should_download_asset(cfg, doc[g])}}

----------------------------------------------------------------------------
(* TransformPipeline: the passes of process_file, in the order it runs     *)
(* them.  A pass can raise only while one of them runs.                    *)

Stages == {"read", "metadata", "assets", "attributes"}

\* A variant that writes the file back whatever the count is.
Always_ChangesMade(total) == total >= 0

\* if total_changes > 0
ChangesMade(total) == total > 0

----------------------------------------------------------------------------
(* The file tree and the documents the runs start from.                    *)

Paths == {"index.html", "work/my-cool-project/index.html"}

VendorIconDark == "https://framerusercontent.com/images/favicon-dark.png"
VendorIconPlain == "https://framerusercontent.com/images/icon.png"
VendorPreview == "https://framerusercontent.com/images/og.png"
OtherUrl == "https://example.org/framer.com/og.png"

NoAttrs == [a \in {} |-> ""]

EmptyDoc ==
    [css |-> 0, nodes |-> <<>>, meta |-> [k \in {} |-> ""], icons |-> <<>>,
     og_image |-> Absent, twitter_image |-> Absent]

SocialDoc ==
    [EmptyDoc EXCEPT !.og_image = VendorPreview, !.twitter_image = VendorPreview]

IconsDoc ==
    [EmptyDoc EXCEPT
        !.css = 1,
        !.icons = << [href |-> VendorIconDark, media |-> Absent],
                     [href |-> VendorIconPlain, media |-> "(prefers-color-scheme: dark)"],
                     [href |-> OtherUrl, media |-> Absent] >>]

BrandedDoc ==
    [EmptyDoc EXCEPT
        !.nodes = << [sel |-> "#__framer-badge-container", text |-> "", attrs |-> NoAttrs],
                     [sel |-> "script", text |-> "window.Framer = 1", attrs |-> NoAttrs],
                     [sel |-> "script", text |-> "let x = 1", attrs |-> NoAttrs],
                     [sel |-> "div", text |-> "Hello",
                      attrs |-> [a \in {"data-framer-name"} |-> "Hero"]] >>,
        !.og_image = OtherUrl]

MixedDoc ==
    [EmptyDoc EXCEPT
        !.meta = ("title" :> "My Framer Site") @@ ("description" :> "Made in Framer")
                 @@ ("og:title" :> "My Framer Site"),
        !.og_image = VendorPreview,
        !.nodes = << [sel |-> "div", text |-> "",
                      attrs |-> [a \in {"data-framer-name", "data-name"} |-> "v-" \o a]] >>]

Docs == {EmptyDoc, SocialDoc, IconsDoc, BrandedDoc, MixedDoc}

\* The documents each file of the tree may hold when the run starts.
DocsAt(path) ==
    IF path = "index.html" THEN Docs ELSE {EmptyDoc, SocialDoc, MixedDoc}

Configs == [backup : BOOLEAN, download_external : BOOLEAN]

\* Sequences over S of length at most n.
SeqsUpTo(S, n) == UNION {[1..k -> S] : k \in 0..n}

Range(seq) == {seq[i] : i \in 1..Len(seq)}

----------------------------------------------------------------------------
(* The run.                                                                *)

CurrentFile == html_files[idx]

World(net) ==
    [downloaded |-> downloaded_assets, fetch_log |-> fetch_log, report |-> report,
     net |-> net, file |-> idx, tag |-> Absent]

Nets(n) == [1..n -> BOOLEAN]

ConstantRest == UNCHANGED <<config, html_files, orig, prior, run_no, pageVars, attrVars>>

RunInit ==
    /\ config \in Configs
    /\ html_files \in SeqsUpTo(Paths, MaxFiles)
    /\ files \in [Paths -> {Source(d) : d \in Docs}]
    /\ \A p \in Paths : files[p].doc \in DocsAt(p)
    /\ \A p \in Paths \ Range(html_files) : files[p] = Source(EmptyDoc)
    /\ backups = [p \in Paths |-> Missing]
    /\ idx = 0
    /\ pc = "start"
    /\ soup = Absent
    /\ total_changes = 0
    /\ report = <<>>
    /\ processed_files = 0
    /\ downloaded_assets = {}
    /\ fetch_log = <<>>
    /\ handed = <<>>
    /\ written = [p \in Paths |-> 0]
    /\ orig = files
    /\ results = <<>>
    /\ prior = <<>>
    /\ summary = <<>>
    /\ run_no = 1

PageIdle == page_path = Absent /\ page_result = <<>>
AttrIdle == attr_pairs = <<>> /\ attr_nodes = <<>> /\ attr_result = <<>>

Init == RunInit /\ PageIdle /\ AttrIdle

\* run(): the first two log lines and the discovery.
StartRun ==
    /\ pc = "start"
    /\ report' = Log(Log(report, "Starting template sanitization...", "INFO"),
                     "Found " \o ToString(Len(html_files)) \o " HTML files to process",
                     "INFO")
    /\ idx' = 1
    /\ pc' = "loop"
    /\ UNCHANGED <<files, backups, soup, total_changes, processed_files,
                   downloaded_assets, fetch_log, handed, written, results, summary>>
    /\ ConstantRest

Banner(rep, file_path) ==
    Log(Log(Log(rep, "============", "INFO"), "Processing: " \o file_path, "INFO"),
        "============", "INFO")

\* backup_file
backup_file(cfg, file_path, disk, baks) ==
    IF cfg.backup THEN [baks EXCEPT ![file_path] = disk[file_path]] ELSE baks

\* A variant in which a raised error ends the loop.
StopOnError_NextAfterError(i) == Len(html_files) + 2

\* What run() does with a file whose process_file raised: log, go on.
NextAfterError(i) == i + 1

Outcome(file_path, changes, failed) ==
    [file |-> file_path, changes |-> changes, failed |-> failed]

\* process_file: the banner and the backup.
BeginFile ==
    /\ pc = "loop"
    /\ idx <= Len(html_files)
    /\ handed' = Append(handed, CurrentFile)
    /\ backups' = backup_file(config, CurrentFile, files, backups)
    /\ report' = IF config.backup
                 THEN Log(Banner(report, CurrentFile),
                          "Created backup: " \o CurrentFile \o Cfg_backup_suffix, "INFO")
                 ELSE Banner(report, CurrentFile)
    /\ pc' = "read"
    /\ UNCHANGED <<files, idx, soup, total_changes, processed_files,
                   downloaded_assets, fetch_log, written, results, summary>>
    /\ ConstantRest

\* process_file raises in the copy; run() logs the error and goes on.
RaiseInBackup ==
    /\ pc = "loop"
    /\ idx <= Len(html_files)
    /\ config.backup
    /\ handed' = Append(handed, CurrentFile)
    /\ report' = Log(Banner(report, CurrentFile),
                     "Error processing " \o CurrentFile, "ERROR")
    /\ results' = Append(results, Outcome(CurrentFile, 0, TRUE))
    /\ idx' = NextAfterError(idx)
    /\ UNCHANGED <<files, backups, pc, soup, total_changes, processed_files,
                   downloaded_assets, fetch_log, written, summary>>
    /\ ConstantRest

\* process_file raises in the read or in a pass; what the earlier passes
\* did to the log and the downloads stays done.  run() logs the error and
\* goes on.
RaiseInPass ==
    /\ pc \in Stages
    /\ report' = Log(report, "Error processing " \o CurrentFile, "ERROR")
    /\ results' = Append(results, Outcome(CurrentFile, 0, TRUE))
    /\ soup' = Absent
    /\ total_changes' = 0
    /\ idx' = NextAfterError(idx)
    /\ pc' = "loop"
    /\ UNCHANGED <<files, backups, processed_files, downloaded_assets, fetch_log,
                   handed, written, summary>>
    /\ ConstantRest

\* process_file: read the file, strip the CSS from its text, parse it.
ReadAndStrip ==
    /\ pc = "read"
    /\ \E c \in {sanitize_css(files[CurrentFile], report)} :
          /\ soup' = Parse(c.content)
          /\ total_changes' = c.changes
          /\ report' = c.report
    /\ pc' = "metadata"
    /\ UNCHANGED <<files, backups, idx, processed_files, downloaded_assets,
                   fetch_log, handed, written, results, summary>>
    /\ ConstantRest

\* process_file: total_changes += self.sanitize_metadata(soup, file_path)
MetadataPass ==
    /\ pc = "metadata"
    /\ \E m \in {sanitize_metadata(soup, CurrentFile, report)} :
          /\ soup' = m.soup
          /\ total_changes' = total_changes + m.changes
          /\ report' = m.report
    /\ pc' = "assets"
    /\ UNCHANGED <<files, backups, idx, processed_files, downloaded_assets,
                   fetch_log, handed, written, results, summary>>
    /\ ConstantRest

\* process_file: total_changes += self.sanitize_assets(soup, file_path);
\* the network answers each fetch as it will.
AssetPass ==
    /\ pc = "assets"
    /\ \E net \in Nets(Cardinality(EligibleTags(soup, config))) :
       \E a \in {sanitize_assets(soup, CurrentFile, config, World(net))} :
          /\ soup' = a.soup
          /\ total_changes' = total_changes + a.changes
          /\ report' = a.w.report
          /\ downloaded_assets' = a.w.downloaded
          /\ fetch_log' = a.w.fetch_log
    /\ pc' = "attributes"
    /\ UNCHANGED <<files, backups, idx, processed_files, handed, written,
                   results, summary>>
    /\ ConstantRest

\* process_file: total_changes += self.sanitize_attributes(soup)
AttributePass ==
    /\ pc = "attributes"
    /\ \E r \in {sanitize_attributes(soup.nodes, Cfg_attribute_replacements, report)} :
          /\ soup' = [soup EXCEPT !.nodes = r.nodes]
          /\ total_changes' = total_changes + r.changes
          /\ report' = r.report
    /\ pc' = "write"
    /\ UNCHANGED <<files, backups, idx, processed_files, downloaded_assets,
                   fetch_log, handed, written, results, summary>>
    /\ ConstantRest

\* process_file: write back if changes were made.
WriteBack ==
    /\ pc = "write"
    /\ IF ChangesMade(total_changes)
       THEN /\ files' = [files EXCEPT ![CurrentFile] = Serialize(soup)]
            /\ written' = [written EXCEPT ![CurrentFile] = @ + 1]
            /\ report' = Log(report, "Made " \o ToString(total_changes)
                                     \o " changes to " \o CurrentFile, "INFO")
            /\ processed_files' = processed_files + 1
       ELSE /\ report' = Log(report, "No changes needed for " \o CurrentFile, "INFO")
            /\ UNCHANGED <<files, written, processed_files>>
    /\ results' = Append(results, Outcome(CurrentFile, total_changes, FALSE))
    /\ soup' = Absent
    /\ total_changes' = 0
    /\ idx' = idx + 1
    /\ pc' = "loop"
    /\ UNCHANGED <<backups, downloaded_assets, fetch_log, handed, summary>>
    /\ ConstantRest

\* generate_report
GenerateReport ==
    /\ pc = "loop"
    /\ idx > Len(html_files)
    /\ summary' = << [files_processed |-> processed_files,
                      assets |-> downloaded_assets,
                      log |-> report] >>
    /\ pc' = "done"
    /\ UNCHANGED <<files, backups, idx, soup, total_changes, report, processed_files,
                   downloaded_assets, fetch_log, handed, written, results>>
    /\ ConstantRest

Next ==
    \/ StartRun
    \/ BeginFile
    \/ RaiseInBackup
    \/ RaiseInPass
    \/ ReadAndStrip
    \/ MetadataPass
    \/ AssetPass
    \/ AttributePass
    \/ WriteBack
    \/ GenerateReport

Spec == Init /\ [][Next]_vars

\* run() is one sequential loop: a step that can be taken is taken.
FairSpec == Spec /\ WF_vars(Next)

----------------------------------------------------------------------------
(* A second run: the script started again on the same tree, with a new     *)
(* TemplateSanitizer and the same configuration.                           *)

Rerun ==
    /\ pc = "done"
    /\ run_no < MaxRuns
    /\ run_no' = run_no + 1
    /\ prior' = results
    /\ orig' = files
    /\ pc' = "start"
    /\ idx' = 0
    /\ report' = <<>>
    /\ processed_files' = 0
    /\ downloaded_assets' = {}
    /\ fetch_log' = <<>>
    /\ handed' = <<>>
    /\ results' = <<>>
    /\ written' = [p \in Paths |-> 0]
    /\ summary' = <<>>
    /\ UNCHANGED <<config, files, backups, html_files, soup, total_changes,
                   pageVars, attrVars>>

InitTwice == Init /\ Len(html_files) <= 1

NextTwice ==
    \/ Next
    \/ Rerun

SpecTwice == InitTwice /\ [][NextTwice]_vars

----------------------------------------------------------------------------
(* Page classification on its own: one path, classified once.              *)

RunIdle ==
    /\ config = [backup |-> FALSE, download_external |-> FALSE]
    /\ html_files = <<>>
    /\ files = [p \in Paths |-> Source(EmptyDoc)]
    /\ backups = [p \in Paths |-> Missing]
    /\ idx = 0
    /\ pc = "idle"
    /\ soup = Absent
    /\ total_changes = 0
    /\ report = <<>>
    /\ processed_files = 0
    /\ downloaded_assets = {}
    /\ fetch_log = <<>>
    /\ handed = <<>>
    /\ written = [p \in Paths |-> 0]
    /\ orig = files
    /\ results = <<>>
    /\ prior = <<>>
    /\ summary = <<>>
    /\ run_no = 1

PageDirs == {"work", "Work", "contact", "my-cool-project", "artwork"}
PageFiles == {"index.html", "Contact.html", "about.html"}

PagePaths ==
    {JoinPath(d \o <<f>>) : d \in SeqsUpTo(PageDirs, MaxDepth), f \in PageFiles}

InitPage ==
    /\ RunIdle
    /\ AttrIdle
    /\ page_path \in PagePaths
    /\ page_result = <<>>

Classify ==
    /\ page_result = <<>>
    /\ page_result' = << [title |-> _get_page_title(page_path),
                          description |-> _get_page_description(page_path)] >>
    /\ UNCHANGED <<runVars, page_path, attrVars>>

NextPage == Classify

SpecPage == InitPage /\ [][NextPage]_vars

----------------------------------------------------------------------------
(* The attribute pass on its own: a list of elements, a list of pairs.     *)

AttrNames == {"data-framer-name", "data-name", "name"}

\* Every attribute carries a value of its own, so that a copy shows.
AttrSets == {[a \in D |-> "v-" \o a] : D \in SUBSET AttrNames}

AttrElements == {[sel |-> "div", text |-> "", attrs |-> f] : f \in AttrSets}

\* A rename pair names two attributes.
Pairs == {pr \in [from : AttrNames, to : AttrNames] : pr.from # pr.to}

InitAttr ==
    /\ RunIdle
    /\ PageIdle
    /\ attr_pairs \in SeqsUpTo(Pairs, MaxPairs)
    /\ attr_nodes \in SeqsUpTo(AttrElements, MaxNodes)
    /\ attr_result = <<>>

RenameAll ==
    /\ attr_result = <<>>
    /\ attr_result' = <<sanitize_attributes(attr_nodes, attr_pairs, <<>>)>>
    /\ UNCHANGED <<runVars, pageVars, attr_pairs, attr_nodes>>

NextAttr == RenameAll

SpecAttr == InitAttr /\ [][NextAttr]_vars

----------------------------------------------------------------------------
(* Properties.                                                             *)

Ended(i) == results[i]

StartsWith(str, prefix) ==
    Len(str) >= Len(prefix) /\ SubSeq(str, 1, Len(prefix)) = prefix

EndsWith(str, suffix) ==
    Len(str) >= Len(suffix) /\ SubSeq(str, Len(str) - Len(suffix) + 1, Len(str)) = suffix

\* The value an asset tag carries: an icon's href, an image tag's content.
TagValue(doc, tag) ==
    IF tag[1] = "icon" THEN doc.icons[tag[2]].href ELSE doc[tag[1]]

AssetTags(doc) ==
    {<<"icon", i>> : i \in 1..Len(doc.icons)}
    \cup {<<f, 0>> : f \in {g \in {"og_image", "twitter_image"} : doc[g] # Absent}}

\* The fetches the file now in process_file has asked for.
FetchesOfCurrent == {i \in 1..Len(fetch_log) : fetch_log[i].file = idx}

\* What the passes other than the asset pass make of the current file.
WithoutAssetPass ==
    LET c == sanitize_css(files[CurrentFile], <<>>)
        m == sanitize_metadata(Parse(c.content), CurrentFile, <<>>)
        r == sanitize_attributes(m.soup.nodes, Cfg_attribute_replacements, <<>>)
    IN [soup  |-> [m.soup EXCEPT !.nodes = r.nodes],
        total |-> c.changes + m.changes + r.changes]

C2_FetchedAtMostOnce ==
    \A i \in 1..Len(fetch_log) : ~fetch_log[i].already

\* C3: a resolve for a local path that was already downloaded in this run
\* is reported as a success, whatever the network would answer now.
C3_ResolvedStaysResolved ==
    \A i \in 1..Len(fetch_log) : fetch_log[i].already => fetch_log[i].ok

\* C4: a failed fetch leaves its tag's reference as it was, adds nothing to
\* the downloaded set and counts no change; every eligible tag of the file is
\* still asked for, the other passes still apply, and a call that counted a
\* change elsewhere still writes the file.
C4_FetchFailureIsLocal ==
    /\ downloaded_assets =
          {fetch_log[i].local_path : i \in {j \in 1..Len(fetch_log) : fetch_log[j].ok}}
    /\ pc = "write" =>
          /\ {fetch_log[i].tag : i \in FetchesOfCurrent}
                = EligibleTags(files[CurrentFile].doc, config)
          /\ Cardinality(FetchesOfCurrent)
                = Cardinality(EligibleTags(files[CurrentFile].doc, config))
          /\ \A i \in FetchesOfCurrent :
                TagValue(soup, fetch_log[i].tag) =
                    IF fetch_log[i].ok
                    THEN get_relative_path(CurrentFile, fetch_log[i].local_path)
                    ELSE TagValue(files[CurrentFile].doc, fetch_log[i].tag)
          /\ total_changes = WithoutAssetPass.total
                + Cardinality({i \in FetchesOfCurrent : fetch_log[i].ok})
          /\ soup.nodes = WithoutAssetPass.soup.nodes
          /\ soup.meta = WithoutAssetPass.soup.meta
    /\ \A i \in 1..Len(results) :
          (~Ended(i).failed /\ Ended(i).changes > 0) => written[Ended(i).file] >= 1

C4_Witness ==
    /\ pc = "done"
    /\ \E i \in 1..Len(fetch_log) :
          /\ ~fetch_log[i].ok
          /\ ~Ended(fetch_log[i].file).failed
          /\ Ended(fetch_log[i].file).changes > 0
          /\ written[html_files[fetch_log[i].file]] = 1
          /\ files[html_files[fetch_log[i].file]].fmt = "bs4"
          /\ TagValue(files[html_files[fetch_log[i].file]].doc, fetch_log[i].tag)
                = fetch_log[i].url

ErrorEntries ==
    {i \in 1..Len(report) : StartsWith(report[i], "[ERROR] Error processing")}

RunCompleted ==
    /\ handed = html_files
    /\ Len(results) = Len(html_files)
    /\ \A i \in 1..Len(results) : Ended(i).file = html_files[i]
    /\ Cardinality(ErrorEntries)
          = Cardinality({i \in 1..Len(results) : Ended(i).failed})
    /\ summary # <<>>
    /\ summary[1].log = report

\* C5: the run always reaches its end, and there every discovered file has
\* been handed to process_file in discovery order, each failed file has one
\* "Error processing" ERROR entry, and the report has been generated.
C5_RunCompletes ==
    /\ <>(pc = "done")
    /\ [](pc = "done" => RunCompleted)

C5_Witness ==
    /\ pc = "done"
    /\ Len(html_files) = 2
    /\ Ended(1).failed
    /\ ~Ended(2).failed
    /\ RunCompleted

\* The process_file call of the run before ended without raising.
PriorCompleted ==
    /\ run_no >= 2
    /\ idx \in 1..Len(prior)
    /\ ~prior[idx].failed

ContactMarker(path) == Contains(ToLower(path), "contact")
CaseStudyMarker(path) == Contains(path, "work/")

TitleClass(title) ==
    IF title = Cfg_contact.title THEN "contact"
    ELSE IF title = Cfg_personal.name \o " - " \o Cfg_personal.title THEN "default"
    ELSE IF EndsWith(title, " - Case Study") THEN "case-study"
    ELSE "none"

DescriptionClass(desc) ==
    IF desc = Cfg_contact.description THEN "contact"
    ELSE IF desc = Cfg_personal.description THEN "default"
    ELSE IF StartsWith(desc, "How ") /\ EndsWith(desc, " was made") THEN "case-study"
    ELSE "none"

\* C7: a path with the contact marker is a contact page, also when it has
\* the case-study marker; a path with only the case-study marker is a case
\* study; any other path is the default page; title and description are of
\* the same class.
C7_FirstMatchWins ==
    page_result # <<>> =>
        /\ TitleClass(page_result[1].title) =
              (IF ContactMarker(page_path) THEN "contact"
               ELSE IF CaseStudyMarker(page_path) THEN "case-study"
               ELSE "default")
        /\ DescriptionClass(page_result[1].description)
              = TitleClass(page_result[1].title)

C7_Witness ==
    /\ page_result # <<>>
    /\ ContactMarker(page_path)
    /\ CaseStudyMarker(page_path)
    /\ page_result[1].title = "Contact Matt"
    /\ page_result[1].description = "Get in touch"

\* What the pairs from the r-th on make of one element's attributes, and
\* the number of renames.
RECURSIVE Renamed(_, _, _)
Renamed(acc, pairs, r) ==
    IF r > Len(pairs) THEN acc
    ELSE IF pairs[r].from \in DOMAIN acc.attrs
    THEN Renamed([attrs |-> [a \in (DOMAIN acc.attrs \ {pairs[r].from}) \cup {pairs[r].to} |->
                                IF a = pairs[r].to THEN acc.attrs[pairs[r].from]
                                ELSE acc.attrs[a]],
                  count |-> acc.count + 1],
                 pairs, r + 1)
    ELSE Renamed(acc, pairs, r + 1)

RECURSIVE RenameCount(_, _, _)
RenameCount(nodes, pairs, i) ==
    IF i > Len(nodes) THEN 0
    ELSE Renamed([attrs |-> nodes[i].attrs, count |-> 0], pairs, 1).count
         + RenameCount(nodes, pairs, i + 1)

C9_BackupHoldsOriginal ==
    (pc = "done" /\ config.backup) =>
        \A p \in Range(handed) : backups[p].fmt # "missing" => backups[p] = orig[p]

HostHasVendorDomain(url) ==
    \E d \in Range(Cfg_vendor_domains) : Contains(Netloc(url), d)

MayLocalize(url) == config.download_external /\ HostHasVendorDomain(url)

\* C10: a fetch is issued, and a reference rewritten, only with
\* localization enabled and for a URL whose host contains a vendor domain;
\* any other tag gets no fetch, keeps its reference and counts no change.
C10_FetchOnlyVendorWhenEnabled ==
    /\ \A i \in 1..Len(fetch_log) : MayLocalize(fetch_log[i].url)
    /\ pc = "write" =>
          /\ \A tag \in AssetTags(files[CurrentFile].doc) :
                ~MayLocalize(TagValue(files[CurrentFile].doc, tag)) =>
                    /\ TagValue(soup, tag) = TagValue(files[CurrentFile].doc, tag)
                    /\ \A i \in FetchesOfCurrent : fetch_log[i].tag # tag
          /\ total_changes - WithoutAssetPass.total
                = Cardinality({tag \in AssetTags(files[CurrentFile].doc) :
                                  TagValue(soup, tag)
                                     # TagValue(files[CurrentFile].doc, tag)})

C10_Witness ==
    /\ pc = "write"
    /\ config.download_external
    /\ \E tag \in AssetTags(files[CurrentFile].doc) :
          /\ TagValue(files[CurrentFile].doc, tag) = OtherUrl
          /\ TagValue(soup, tag) = OtherUrl
    /\ \E i \in FetchesOfCurrent : fetch_log[i].ok
    /\ total_changes - WithoutAssetPass.total = 1

====
